---- MODULE Spec2Model ----
(***************************************************************************)
(* Quiz Master (src/quiz_streamlit.py): the per-user question store and    *)
(* the three-stage session (menu -> quiz -> results).                      *)
(*                                                                         *)
(* One script run of the Streamlit host is main(): QuizApp() constructs    *)
(* (initialize_user_database, initialize_session_state), then run()        *)
(* renders the current stage and dispatches the one button that was        *)
(* pressed.  pc = "construct" is the point before QuizApp(), pc = "run"    *)
(* the point before app.run() in the script run that dispatches the next   *)
(* button; a script run with no button pressed is Construct alone.         *)
(*                                                                         *)
(* Randomness (SQLite's ORDER BY RANDOM(), random.shuffle) is a            *)
(* nondeterministic choice of a generator state from a bounded set; every  *)
(* sqlite3 call may fail, with the outcome the code's handling gives it.   *)
(***************************************************************************)
EXTENDS Integers, Sequences, FiniteSets, TLC

VARIABLES
    master,                  \* rows of questions.db (read only)
    db,                      \* rows of the user's questions table, committed
    current_stage,           \* st.session_state.current_stage
    quiz_type,               \* st.session_state.quiz_type
    questions,               \* st.session_state.questions (the batch)
    current_question_index,  \* st.session_state.current_question_index
    user_answers,            \* st.session_state.user_answers
    results,                 \* st.session_state.results
    pc,                      \* position in the script run
    event,                   \* the handler the last script run dispatched
    notices,                 \* what the last handler reported to the user
    submits,                 \* submit_answer calls so far (bounded)
    upsets,                  \* non-default radio selections and failed store
                             \* writes of submit_answer so far (bounded)
    unasked_before,          \* history: the ids with has_asked = 0 when the
                             \* current batch was queried
    last_recorded            \* history: per id, the outcome of the last
                             \* submit_answer that wrote the row since the
                             \* store was seeded or last reset

session == <<current_stage, quiz_type, questions, current_question_index,
             user_answers, results>>
vars == <<master, db, current_stage, quiz_type, questions,
          current_question_index, user_answers, results, pc, event, notices,
          submits, upsets, unasked_before, last_recorded>>

----------------------------------------------------------------------------
(* Bounds of the model *)

MaxQuestions == 11
SmallMaster == 5
MaxSqlSeed == 1
MaxShuffleSeed == 0
MaxSubmits == 11
MaxPick == 2
MaxUpsets == 1

(* Program constants *)

LIMIT == 10
MinBatch == 10
NumOptions == 5

----------------------------------------------------------------------------
(* Data *)

Min(a, b) == IF a < b THEN a ELSE b

Letters == <<"a", "b", "c", "d", "e">>

OptionText(i, k) == Letters[((k - 1) % 5) + 1] \o ToString(i)

(* A row of the questions table: the ten columns of CREATE TABLE. *)
Row(i, asked, correct) ==
    [id |-> i,
     question |-> "q" \o ToString(i),
     option1 |-> OptionText(i, 1),
     option2 |-> OptionText(i, 2),
     option3 |-> OptionText(i, 3),
     option4 |-> OptionText(i, 4),
     option5 |-> OptionText(i, 5),
     answer |-> OptionText(i, ((2 * i) % NumOptions) + 1),
     has_asked |-> asked,
     user_answered_correctly |-> correct]

(* The contents questions.db may have: a small and a large question set,   *)
(* with the flag columns all 0 or carrying flags of earlier use.           *)
Masters ==
    { [i \in 1..n |-> Row(i, f[1], f[2])] :
        n \in {SmallMaster, MaxQuestions}, f \in {<<0, 0>>, <<1, 0>>} }

QuizTypes == {"Random Quiz", "Untested Questions Quiz", "Incorrect Questions Quiz"}

quiz_option_map(qt) ==
    CASE qt = "Random Quiz" -> 1
      [] qt = "Untested Questions Quiz" -> 2
      [] qt = "Incorrect Questions Quiz" -> 3

----------------------------------------------------------------------------
(* Question store *)

(* Faulty variant: the INSERT leaves the two flag columns to their         *)
(* DEFAULT 0.                                                              *)
initialize_user_database_default_flags(d, m, ok) ==
    IF ok /\ Len(d) = 0
    THEN [k \in 1..Len(m) |-> [m[k] EXCEPT !.has_asked = 0,
                                           !.user_answered_correctly = 0]]
    ELSE d

(* Faulty variant: the copy without its "if count == 0". *)
initialize_user_database_every_run(d, m, ok) ==
    IF ok THEN m ELSE d

(* initialize_user_database: CREATE TABLE IF NOT EXISTS, then copy every   *)
(* master row verbatim when the table is empty.  A sqlite3.Error is caught *)
(* and the connection closed without commit: nothing is written.           *)
initialize_user_database(d, m, ok) ==
    IF ok /\ Len(d) = 0 THEN m ELSE d

(* Faulty variant: option 3 without "has_asked = 1". *)
Where_incorrect_only(option, row) ==
    CASE option = 1 -> TRUE
      [] option = 2 -> row.has_asked = 0
      [] option = 3 -> row.user_answered_correctly = 0

RowIds(d) == {d[k].id : k \in 1..Len(d)}

UnaskedIds(d) == {d[k].id : k \in {j \in 1..Len(d) : d[j].has_asked = 0}}

(* The WHERE clause of each of the three SELECTs. *)
Where(option, row) ==
    CASE option = 1 -> TRUE
      [] option = 2 -> row.has_asked = 0
      [] option = 3 -> row.has_asked = 1 /\ row.user_answered_correctly = 0

(* ORDER BY RANDOM(): an order of the matching rows chosen by the          *)
(* generator state.                                                        *)
OrderByRandom(rows, seed) ==
    [k \in 1..Len(rows) |-> rows[((k - 1 + seed) % Len(rows)) + 1]]

Columns(row) ==
    [id |-> row.id, question |-> row.question,
     option1 |-> row.option1, option2 |-> row.option2, option3 |-> row.option3,
     option4 |-> row.option4, option5 |-> row.option5, answer |-> row.answer]

(* Faulty variant: the SELECTs without their LIMIT 10. *)
get_random_questions_no_limit(d, option, seed, ok) ==
    IF ~ok THEN <<>>
    ELSE LET matching == SelectSeq(d, LAMBDA row : Where(option, row))
             ordered == OrderByRandom(matching, seed)
         IN [k \in 1..Len(ordered) |-> Columns(ordered[k])]

(* get_random_questions: the dicts of up to LIMIT matching rows; [] when   *)
(* the query raises sqlite3.Error.                                         *)
get_random_questions(d, option, seed, ok) ==
    IF ~ok THEN <<>>
    ELSE LET matching == SelectSeq(d, LAMBDA row : Where(option, row))
             ordered == OrderByRandom(matching, seed)
             limited == SubSeq(ordered, 1, Min(Len(ordered), LIMIT))
         IN [k \in 1..Len(limited) |-> Columns(limited[k])]

(* Faulty variant: the reset empties the table, for the next script run to *)
(* seed it again.                                                          *)
reset_all_questions_deletes(d, ok) ==
    IF ok THEN <<>> ELSE d

(* Faulty variant: the UPDATE sets has_asked alone. *)
reset_all_questions_keeps_correct(d, ok) ==
    IF ok
    THEN [k \in 1..Len(d) |-> [d[k] EXCEPT !.has_asked = 0]]
    ELSE d

(* Faulty variant: the UPDATE sets user_answered_correctly alone. *)
reset_all_questions_keeps_asked(d, ok) ==
    IF ok
    THEN [k \in 1..Len(d) |-> [d[k] EXCEPT !.user_answered_correctly = 0]]
    ELSE d

(* Faulty variant: every row is committed on its own, and a failure       *)
(* strikes after the first row.                                            *)
reset_all_questions_row_by_row(d, ok) ==
    [k \in 1..Len(d) |->
        IF ok \/ k = 1
        THEN [d[k] EXCEPT !.has_asked = 0, !.user_answered_correctly = 0]
        ELSE d[k]]

(* reset_all_questions: one UPDATE of both flags on every row, committed;  *)
(* on sqlite3.Error the connection is closed without commit.               *)
reset_all_questions(d, ok) ==
    IF ok
    THEN [k \in 1..Len(d) |-> [d[k] EXCEPT !.has_asked = 0,
                                          !.user_answered_correctly = 0]]
    ELSE d

(* Faulty variant: the UPDATE sets both flags to is_correct. *)
record_answer_asked_if_correct(d, id, is_correct) ==
    [k \in 1..Len(d) |->
        IF d[k].id = id
        THEN [d[k] EXCEPT !.has_asked = IF is_correct THEN 1 ELSE 0,
                          !.user_answered_correctly = IF is_correct THEN 1 ELSE 0]
        ELSE d[k]]

(* Faulty variant: the UPDATE without its WHERE id = ?. *)
record_answer_every_row(d, id, is_correct) ==
    [k \in 1..Len(d) |->
        [d[k] EXCEPT !.has_asked = 1,
                     !.user_answered_correctly = IF is_correct THEN 1 ELSE 0]]

(* The UPDATE of submit_answer: has_asked = 1, user_answered_correctly =   *)
(* is_correct WHERE id = ?.                                                *)
record_answer(d, id, is_correct) ==
    [k \in 1..Len(d) |->
        IF d[k].id = id
        THEN [d[k] EXCEPT !.has_asked = 1,
                          !.user_answered_correctly = IF is_correct THEN 1 ELSE 0]
        ELSE d[k]]

----------------------------------------------------------------------------
(* Sampler *)

(* Faulty variant: every position draws an option, with replacement. *)
shuffle_with_replacement(options, g) ==
    [k \in 1..Len(options) |->
        options[(((k - 1) * (k - 1) + g) % Len(options)) + 1]]

(* random.shuffle(options): a permutation chosen by the generator state. *)
shuffle(options, g) ==
    [k \in 1..Len(options) |-> options[((k - 1 + g) % Len(options)) + 1]]

OptionsOf(question) ==
    <<question.option1, question.option2, question.option3,
      question.option4, question.option5>>

(* The loop of start_quiz that adds 'shuffled_options' to every question;  *)
(* the generator advances from one question to the next.                   *)
ShuffleAll(qs, seed) ==
    [k \in 1..Len(qs) |->
        [id |-> qs[k].id, question |-> qs[k].question,
         option1 |-> qs[k].option1, option2 |-> qs[k].option2,
         option3 |-> qs[k].option3, option4 |-> qs[k].option4,
         option5 |-> qs[k].option5, answer |-> qs[k].answer,
         shuffled_options |-> shuffle(OptionsOf(qs[k]), seed + k)]]

----------------------------------------------------------------------------
(* Session *)

(* The state after the first construction: the store seeded from the      *)
(* master (or left empty when seeding failed) and the session defaults of *)
(* initialize_session_state.                                              *)
Init ==
    /\ master \in Masters
    /\ \E ok \in BOOLEAN : db = initialize_user_database(<<>>, master, ok)
    /\ notices = {}
    /\ current_stage = "menu"
    /\ quiz_type = "None"
    /\ questions = <<>>
    /\ current_question_index = 0
    /\ user_answers = <<>>
    /\ results = <<>>
    /\ pc = "run"
    /\ event = <<"__init__">>
    /\ submits = 0
    /\ upsets = 0
    /\ unasked_before = {}
    /\ last_recorded = [i \in RowIds(master) |-> "none"]

(* QuizApp.__init__ of a later script run.  The session keys all exist,    *)
(* so initialize_session_state assigns nothing.                            *)
Construct ==
    /\ pc = "construct"
    /\ \E ok \in BOOLEAN : db' = initialize_user_database(db, master, ok)
    /\ notices' = {}
    /\ pc' = "run"
    /\ event' = <<"__init__">>
    /\ UNCHANGED <<master, session, submits, upsets, unasked_before,
                   last_recorded>>

(* Faulty variant: the batch is stored before the length check. *)
not_enough_questions_stores_batch(qs) ==
    /\ questions' = qs
    /\ UNCHANGED <<current_stage, quiz_type, current_question_index,
                   user_answers, results>>

(* start_quiz's early return when the query gave fewer than 10 rows:       *)
(* nothing of the session is assigned.                                     *)
not_enough_questions(qs) ==
    UNCHANGED session

(* start_quiz's "Update session state". *)
begin_quiz(qs, g, qt) ==
    /\ questions' = ShuffleAll(qs, g)
    /\ current_question_index' = 0
    /\ user_answers' = <<>>
    /\ results' = <<>>
    /\ current_stage' = "quiz"
    /\ quiz_type' = qt

(* render_menu: one of the three quiz buttons -> start_quiz(quiz_type). *)
start_quiz(qt) ==
    /\ pc = "run"
    /\ current_stage = "menu"
    /\ \E seed \in 0..MaxSqlSeed, g \in 0..MaxShuffleSeed, ok \in BOOLEAN :
         LET qs == get_random_questions(db, quiz_option_map(qt), seed, ok)
             queryNotice == IF ok THEN {} ELSE {"Database error"}
         IN IF Len(qs) < MinBatch
            THEN /\ notices' = notices \cup queryNotice
                                 \cup {"Not enough questions available"}
                 /\ not_enough_questions(qs)
                 /\ UNCHANGED unasked_before
            ELSE /\ begin_quiz(qs, g, qt)
                 /\ notices' = notices
                 /\ unasked_before' = UnaskedIds(db)
    /\ pc' = "construct"
    /\ event' = <<"start_quiz", qt>>
    /\ UNCHANGED <<master, db, submits, upsets, last_recorded>>

Start == \E qt \in QuizTypes : start_quiz(qt)

(* Faulty variant: the reset also drops the finished quiz's batch, answers *)
(* and results from the session.                                           *)
Reset_clears_session ==
    /\ pc = "run"
    /\ current_stage = "menu"
    /\ \E ok \in BOOLEAN :
         /\ db' = reset_all_questions(db, ok)
         /\ notices' = notices \cup
                IF ok THEN {"All questions have been reset successfully"}
                      ELSE {"An error occurred while resetting questions"}
         /\ last_recorded' =
                IF ok THEN [i \in DOMAIN last_recorded |-> "none"]
                      ELSE last_recorded
    /\ questions' = <<>>
    /\ user_answers' = <<>>
    /\ results' = <<>>
    /\ pc' = "construct"
    /\ event' = <<"reset_all_questions">>
    /\ UNCHANGED <<master, current_stage, quiz_type, current_question_index,
                   submits, upsets, unasked_before>>

(* render_menu: "Reset All Questions" -> reset_all_questions(). *)
Reset ==
    /\ pc = "run"
    /\ current_stage = "menu"
    /\ \E ok \in BOOLEAN :
         /\ db' = reset_all_questions(db, ok)
         /\ notices' = notices \cup
                IF ok THEN {"All questions have been reset successfully"}
                      ELSE {"An error occurred while resetting questions"}
         /\ last_recorded' =
                IF ok THEN [i \in DOMAIN last_recorded |-> "none"]
                      ELSE last_recorded
    /\ pc' = "construct"
    /\ event' = <<"reset_all_questions">>
    /\ UNCHANGED <<master, session, submits, upsets, unasked_before>>

(* submit_answer up to the store write: the answer and the result are      *)
(* appended to the session lists.                                          *)
Result(q, user_answer) ==
    [question |-> q.question,
     correct_answer |-> q.answer,
     user_answer |-> user_answer,
     is_correct |-> (user_answer = q.answer)]

(* submit_answer's "Check if quiz is complete", on the advanced index. *)
quiz_complete(index, qs) == index >= Len(qs)

Upset(i, ok) == (IF i = 1 THEN 0 ELSE 1) + (IF ok THEN 0 ELSE 1)

(* render_quiz: "Submit Answer" -> submit_answer(user_answer), where       *)
(* user_answer is the radio's selection among the shuffled options: the    *)
(* first one unless the user changed it, here to one of the first MaxPick. *)
(* ok = FALSE: the store write raises sqlite3.Error, which submit_answer   *)
(* does not catch: the script run ends there, after the two appends.       *)
submit_answer(i, ok) ==
    /\ pc = "run"
    /\ current_stage = "quiz"
    /\ submits < MaxSubmits
    /\ upsets + Upset(i, ok) <= MaxUpsets
    /\ LET current_question == questions[current_question_index + 1]
           user_answer == current_question.shuffled_options[i]
           is_correct == (user_answer = current_question.answer)
       IN /\ user_answers' = Append(user_answers, user_answer)
          /\ results' = Append(results, Result(current_question, user_answer))
          /\ IF ok
             THEN /\ db' = record_answer(db, current_question.id, is_correct)
                  /\ current_question_index' = current_question_index + 1
                  /\ current_stage' =
                        IF quiz_complete(current_question_index + 1, questions)
                        THEN "results" ELSE current_stage
                  /\ notices' = notices
                  /\ last_recorded' =
                        [last_recorded EXCEPT ![current_question.id] =
                            IF is_correct THEN "right" ELSE "wrong"]
             ELSE /\ notices' = notices \cup {"sqlite3.Error"}
                  /\ UNCHANGED <<db, current_question_index, current_stage,
                                 last_recorded>>
    /\ submits' = submits + 1
    /\ upsets' = upsets + Upset(i, ok)
    /\ pc' = "construct"
    /\ event' = <<"submit_answer">>
    /\ UNCHANGED <<master, quiz_type, questions, unasked_before>>

Submit ==
    \E i \in 1..Min(MaxPick, NumOptions), ok \in BOOLEAN : submit_answer(i, ok)

(* render_results' "Calculate score": the results marked correct. *)
score(rs) == Cardinality({r \in 1..Len(rs) : rs[r].is_correct})

(* Faulty variant: the button shows the finished quiz again. *)
ReturnToMenu_to_quiz ==
    /\ pc = "run"
    /\ current_stage = "results"
    /\ current_stage' = "quiz"
    /\ pc' = "construct"
    /\ event' = <<"return_to_menu">>
    /\ UNCHANGED <<master, db, quiz_type, questions, current_question_index,
                   user_answers, results, notices, submits, upsets,
                   unasked_before, last_recorded>>

(* Faulty variant: the button also resets the session to its defaults. *)
ReturnToMenu_discards ==
    /\ pc = "run"
    /\ current_stage = "results"
    /\ current_stage' = "menu"
    /\ quiz_type' = "None"
    /\ questions' = <<>>
    /\ current_question_index' = 0
    /\ user_answers' = <<>>
    /\ results' = <<>>
    /\ pc' = "construct"
    /\ event' = <<"return_to_menu">>
    /\ UNCHANGED <<master, db, notices, submits, upsets, unasked_before,
                   last_recorded>>

(* render_results: "Return to Menu". *)
ReturnToMenu ==
    /\ pc = "run"
    /\ current_stage = "results"
    /\ current_stage' = "menu"
    /\ pc' = "construct"
    /\ event' = <<"return_to_menu">>
    /\ UNCHANGED <<master, db, quiz_type, questions, current_question_index,
                   user_answers, results, notices, submits, upsets,
                   unasked_before, last_recorded>>

(* Faulty variant: the handler is called whatever the stage, and appends    *)
(* the answer before its lookup of the current question raises IndexError. *)
ignore_submit_appends ==
    /\ user_answers' = Append(user_answers, "")
    /\ UNCHANGED <<current_stage, quiz_type, questions, current_question_index,
                   results, db>>

(* run() calls the renderer of the current stage alone, and render_menu    *)
(* and render_results draw no "Submit Answer" button: a press of it that   *)
(* arrives in those stages meets no button and calls no handler.           *)
ignore_submit ==
    UNCHANGED <<session, db>>

(* A "Submit Answer" press delivered to a script run whose stage is menu   *)
(* or results (a press on a page rendered before the stage changed).       *)
SubmitOutsideQuiz ==
    /\ pc = "run"
    /\ current_stage \in {"menu", "results"}
    /\ ignore_submit
    /\ pc' = "construct"
    /\ event' = <<"submit_ignored">>
    /\ UNCHANGED <<master, notices, submits, upsets, unasked_before,
                   last_recorded>>

Next ==
    \/ Construct
    \/ Start
    \/ Reset
    \/ Submit
    \/ ReturnToMenu
    \/ SubmitOutsideQuiz

Spec == Init /\ [][Next]_vars

----------------------------------------------------------------------------
(* Properties *)

(* The state right after the handler `name` ran. *)
After(name) == pc = "construct" /\ event[1] = name

(* The filter predicates as the question-store contract states them. *)
FilterHolds(option, row) ==
    CASE option = 1 -> TRUE
      [] option = 2 -> row.has_asked = 0
      [] option = 3 -> row.has_asked = 1 /\ row.user_answered_correctly = 0

MatchingIds(d, option) ==
    {d[k].id : k \in {j \in 1..Len(d) : FilterHolds(option, d[j])}}

Ids(qs) == {qs[k].id : k \in 1..Len(qs)}

(* C1: in every reachable state the position index is in [0, 10] and the   *)
(* results list and the answers list are each as long as the position      *)
(* index.                                                                  *)
C1_PositionMatchesResults ==
    /\ current_question_index \in 0..10
    /\ Len(results) = current_question_index
    /\ Len(user_answers) = current_question_index

(* C2: a start that enters the quiz stage leaves a batch of exactly 10     *)
(* questions, position 0, and empty answers and results, whatever the      *)
(* store holds and whatever the session held before.                       *)
C2_StartInstallsFreshBatch ==
    (After("start_quiz") /\ current_stage = "quiz") =>
        /\ Len(questions) = 10
        /\ current_question_index = 0
        /\ user_answers = <<>>
        /\ results = <<>>
        /\ quiz_type = event[2]

(* C2 witness: a second quiz was started over the leftovers of a finished  *)
(* one, from a store with 11 rows.                                         *)
C2_Witness ==
    /\ After("start_quiz")
    /\ current_stage = "quiz"
    /\ submits >= 10
    /\ Len(db) > 10
    /\ Len(questions) = 10

(* C3: a start for which fewer than 10 rows match the filter, or whose     *)
(* query fails, reports the error and changes nothing: stage, batch,       *)
(* position, answers, results, label and store stay as they were.          *)
C3_FailedStartChangesNothing ==
    [][ (pc = "run" /\ event'[1] = "start_quiz") =>
          ( ( \/ Cardinality(MatchingIds(db, quiz_option_map(event'[2]))) < 10
              \/ "Database error" \in notices' )
            => /\ current_stage' = "menu"
               /\ current_stage = "menu"
               /\ UNCHANGED <<questions, current_question_index, user_answers,
                              results, quiz_type, db>>
               /\ "Not enough questions available" \in notices' ) ]_vars

(* C3 witness: a failed start in the menu after a finished quiz, whose     *)
(* batch, answers and results are still in the session.                    *)
C3_Witness ==
    /\ After("start_quiz")
    /\ current_stage = "menu"
    /\ "Not enough questions available" \in notices
    /\ Len(questions) = 10
    /\ Len(db) > 10

(* C4: the results stage is reached only by exactly 10 submit events from  *)
(* the quiz stage.  Every submit_answer call appends one entry to          *)
(* user_answers and a successful start empties it, so Len(user_answers)    *)
(* counts the submit events since the last successful start; the stage is  *)
(* results only after exactly 10 of them, and after each of the first 9    *)
(* the stage is still quiz.                                                *)
C4_ResultsAfterTenSubmits ==
    /\ current_stage = "results" => Len(user_answers) = 10
    /\ (After("submit_answer") /\ Len(user_answers) < 10) => current_stage = "quiz"

C6_SubmitRecordsAnswer ==
    [][ (pc = "run" /\ event'[1] = "submit_answer"
           /\ "sqlite3.Error" \notin notices') =>
          LET q == questions[current_question_index + 1]
              a == user_answers'[Len(user_answers')]
          IN /\ Len(db') = Len(db)
             /\ \E k \in 1..Len(db) : db[k].id = q.id
             /\ \A k \in 1..Len(db) :
                  IF db[k].id = q.id
                  THEN db'[k] = [db[k] EXCEPT
                                   !.has_asked = 1,
                                   !.user_answered_correctly =
                                       IF a = db[k].answer THEN 1 ELSE 0]
                  ELSE db'[k] = db[k] ]_vars

(* C6 witness: a correct answer was just recorded on its row, next to rows *)
(* that were answered wrongly and rows never asked.                        *)
C6_Witness ==
    /\ After("submit_answer")
    /\ "sqlite3.Error" \notin notices
    /\ results[Len(results)].is_correct
    /\ \E k \in 1..Len(db) :
          /\ db[k].id = questions[current_question_index].id
          /\ db[k].has_asked = 1
          /\ db[k].user_answered_correctly = 1
    /\ \E k \in 1..Len(db) :
          db[k].has_asked = 1 /\ db[k].user_answered_correctly = 0
    /\ \E k \in 1..Len(db) : db[k].has_asked = 0

(* C7: on every store state, for each filter and each outcome of the       *)
(* query, the result has at most 10 questions, each is a row of the store  *)
(* that satisfies the filter predicate, and no id occurs twice.            *)
C7_QueryRespectsFilter ==
    \A option \in 1..3 :
        LET matching == MatchingIds(db, option)
        IN \A seed \in 0..MaxSqlSeed, ok \in BOOLEAN :
             LET ids == Ids(get_random_questions(db, option, seed, ok))
                 n == Len(get_random_questions(db, option, seed, ok))
             IN /\ n <= 10
                /\ ids \subseteq matching
                /\ Cardinality(ids) = n

(* C7 witness: a store of 11 rows with unasked, correctly and wrongly      *)
(* answered rows, where ALL is cut to 10 and the other two filters each    *)
(* select a proper, non-empty part.                                        *)
C7_Witness ==
    /\ Len(db) > 10
    /\ Len(get_random_questions(db, 1, 0, TRUE)) = 10
    /\ Len(get_random_questions(db, 2, 0, TRUE)) \in 1..9
    /\ Len(get_random_questions(db, 3, 0, TRUE)) \in 1..9
    /\ \E k \in 1..Len(db) : db[k].user_answered_correctly = 1

(* C8 as stated: after a reset that succeeded, query(INCORRECT) is empty   *)
(* and query(UNASKED) returns the full set of the user's questions.        *)
C8_ResetThenQueryFullSet ==
    (After("reset_all_questions")
       /\ "All questions have been reset successfully" \in notices) =>
        \A seed \in 0..MaxSqlSeed :
            /\ get_random_questions(db, 3, seed, TRUE) = <<>>
            /\ Ids(get_random_questions(db, 2, seed, TRUE)) = MatchingIds(db, 1)

(* C8 amended: after a reset that succeeded, query(INCORRECT) is empty,    *)
(* every row matches UNASKED, and query(UNASKED) returns min(10, n)        *)
(* distinct questions of the user's n: the full set only when n <= 10.     *)
C8_ResetThenQuery ==
    (After("reset_all_questions")
       /\ "All questions have been reset successfully" \in notices) =>
        \A seed \in 0..MaxSqlSeed :
            LET unasked == get_random_questions(db, 2, seed, TRUE)
            IN /\ get_random_questions(db, 3, seed, TRUE) = <<>>
               /\ MatchingIds(db, 2) = MatchingIds(db, 1)
               /\ Len(unasked) = Min(10, Len(db))
               /\ Cardinality(Ids(unasked)) = Len(unasked)
               /\ Ids(unasked) \subseteq MatchingIds(db, 1)
               /\ Len(db) <= 10 => Ids(unasked) = MatchingIds(db, 1)

(* C8 witness: a succeeded reset of an 11-row store whose rows had been    *)
(* answered, some of them wrongly.                                         *)
C8_Witness ==
    /\ After("reset_all_questions")
    /\ "All questions have been reset successfully" \in notices
    /\ Len(db) > 10
    /\ \E r \in 1..Len(results) : ~results[r].is_correct
    /\ Len(get_random_questions(db, 2, 0, TRUE)) = 10

(* C9: when the store write of a submit fails, the result is still         *)
(* recorded and the session still advances, so the results and the         *)
(* answers stay as long as the position index.                             *)
C9_FailedWriteStillAdvances ==
    (After("submit_answer") /\ "sqlite3.Error" \in notices) =>
        /\ Len(results) = current_question_index
        /\ Len(user_answers) = current_question_index
        /\ current_question_index >= 1

(* C10: a reset either leaves every row with both flags 0 and reports      *)
(* success, or reports the error and leaves every row as it was; the rows  *)
(* themselves (count, ids, texts) are the same either way.                 *)
C10_ResetAllOrNothing ==
    [][ (pc = "run" /\ event'[1] = "reset_all_questions") =>
          \/ /\ "All questions have been reset successfully" \in notices'
             /\ Len(db') = Len(db)
             /\ \A k \in 1..Len(db) :
                  db'[k] = [db[k] EXCEPT !.has_asked = 0,
                                         !.user_answered_correctly = 0]
          \/ /\ "An error occurred while resetting questions" \in notices'
             /\ db' = db ]_vars

(* C10 witness: a failed reset of a store holding asked and unasked rows,  *)
(* all of them as before.                                                  *)
C10_Witness ==
    /\ After("reset_all_questions")
    /\ "An error occurred while resetting questions" \in notices
    /\ \E k \in 1..Len(db) : db[k].has_asked = 1
    /\ \E k \in 1..Len(db) : db[k].has_asked = 0

(* C11: a submit event dispatched while the stage is not quiz (menu before *)
(* any quiz, menu after returning from results, or results) changes        *)
(* neither the session (stage, batch, position, answers, results, label)   *)
(* nor any row of the store.                                               *)
C11_SubmitOutsideQuizIgnored ==
    [][ (pc = "run" /\ current_stage # "quiz"
           /\ event'[1] \in {"submit_ignored", "submit_answer"}) =>
          /\ current_stage' = current_stage
          /\ UNCHANGED <<questions, current_question_index, user_answers,
                         results, quiz_type, db>> ]_vars

(* C11 witness: a submit press was ignored in the menu that still holds    *)
(* the finished quiz, whose rows carry recorded answers.                   *)
C11_Witness ==
    /\ After("submit_ignored")
    /\ current_stage = "menu"
    /\ Len(questions) = 10
    /\ current_question_index = 10
    /\ \E k \in 1..Len(db) : db[k].user_answered_correctly = 1

(* Occurrences of x in a sequence. *)
Count(seq, x) == Cardinality({k \in 1..Len(seq) : seq[k] = x})

Range(seq) == {seq[k] : k \in 1..Len(seq)}

(* C12: for every question of a batch that a start installs, the shuffled  *)
(* presentation order is a permutation of the question's stored options    *)
(* (every string occurs as often in the one as in the other), the correct  *)
(* answer occurs exactly once in it, the question carries the stored       *)
(* options in the stored order, and the start changes no row of the store  *)
(* nor of the master.                                                      *)
C12_ShuffleIsPermutation ==
    [][ (pc = "run" /\ event'[1] = "start_quiz" /\ current_stage' = "quiz") =>
          /\ db' = db
          /\ master' = master
          /\ \A k \in 1..Len(questions') :
                LET q == questions'[k]
                    shown == q.shuffled_options
                IN /\ \E r \in 1..Len(db) :
                        /\ db[r].id = q.id
                        /\ OptionsOf(q) = OptionsOf(db[r])
                        /\ q.answer = db[r].answer
                   /\ Len(shown) = Len(OptionsOf(q))
                   /\ \A x \in Range(shown) \cup Range(OptionsOf(q)) :
                        Count(shown, x) = Count(OptionsOf(q), x)
                   /\ Count(shown, q.answer) = 1 ]_vars

(* C12 witness: a started batch in which one question is shown in another  *)
(* order than the stored one and one in the stored order, over a store     *)
(* that holds recorded answers.                                            *)
C12_Witness ==
    /\ After("start_quiz")
    /\ current_stage = "quiz"
    /\ \E k \in 1..Len(questions) :
          questions[k].shuffled_options # OptionsOf(questions[k])
    /\ \E k \in 1..Len(questions) :
          questions[k].shuffled_options = OptionsOf(questions[k])
    /\ \E r \in 1..Len(db) : db[r].user_answered_correctly = 1

(* The store holds one row per master row, with the master row's id and    *)
(* content columns. *)
SeededFrom(d, m) ==
    /\ Len(d) = Len(m)
    /\ \A k \in 1..Len(m) : d[k].id = m[k].id /\ Columns(d[k]) = Columns(m[k])

(* C13: initialize_user_database seeds the store only when it is empty: on *)
(* an empty store it copies every master row with its id (or, when the     *)
(* store cannot be written, leaves it empty), and on a non-empty store, in *)
(* every later script run, it leaves every row and flag as it is.          *)
C13_SeedOnlyWhenEmpty ==
    /\ (db = <<>> \/ SeededFrom(db, master))
    /\ [][ pc = "construct" =>
             IF Len(db) > 0
             THEN db' = db
             ELSE db' = <<>> \/ SeededFrom(db', master) ]_vars

(* C13 witness: a script run constructed the app over a store whose flags  *)
(* recorded answers had moved away from the master's, and kept them.       *)
C13_Witness ==
    /\ pc = "run"
    /\ event[1] = "__init__"
    /\ submits > 0
    /\ Len(db) = Len(master)
    /\ \E k \in 1..Len(db) : db[k].has_asked # master[k].has_asked
    /\ \E k \in 1..Len(db) : db[k].user_answered_correctly = 1

AllFlagsFalse(d) ==
    \A k \in 1..Len(d) : d[k].has_asked = 0 /\ d[k].user_answered_correctly = 0

(* C14 as stated: every row of a newly seeded store (seeded by the first   *)
(* construction or by a later one that found the store empty) has          *)
(* has_asked = 0 and user_answered_correctly = 0, whatever the master      *)
(* holds.                                                                  *)
C14_SeededFlagsFalse ==
    /\ (Len(db) > 0 => AllFlagsFalse(db))
    /\ [][ (Len(db) = 0 /\ Len(db') > 0) => AllFlagsFalse(db') ]_vars

(* C14 amended: every row of a newly seeded store is its master row, the   *)
(* two flags included: both flags are 0 on exactly the rows whose master   *)
(* flags are 0.                                                            *)
C14_SeededFlagsFromMaster ==
    /\ (Len(db) > 0 => db = master)
    /\ [][ (Len(db) = 0 /\ Len(db') > 0) => db' = master ]_vars

(* C14 witness: a store seeded from a master whose rows carry has_asked =  *)
(* 1, before any answer or reset.                                          *)
C14_Witness ==
    /\ pc = "run"
    /\ event[1] = "__init__"
    /\ submits = 0
    /\ Len(db) > 0
    /\ db = master
    /\ \A k \in 1..Len(db) : db[k].has_asked = 1

(* The answer the store holds for the question with this text. *)
StoredAnswer(d, text) ==
    (CHOOSE row \in Range(d) : row.question = text).answer

(* The submitted answers that are the stored answer of their question. *)
CorrectSubmissions ==
    Cardinality({k \in 1..Len(user_answers) :
                    user_answers[k] = StoredAnswer(db, results[k].question)})

(* C15: in an Untested Questions quiz, when the 10th submit has run to its *)
(* end (the position is 10): the stage is results, the 10 batch questions  *)
(* all had has_asked = 0 in the store when the quiz was started, the rows  *)
(* with has_asked = 0 are those of before the start without the batch, 10  *)
(* fewer (so at most Len(db) - 10 remain), and the score that Results      *)
(* shows is the number of submitted answers that are the stored answer of  *)
(* their question.                                                         *)
C15_UntestedQuizCompletes ==
    (After("submit_answer") /\ quiz_type = "Untested Questions Quiz"
       /\ current_question_index = 10) =>
        /\ current_stage = "results"
        /\ Cardinality(Ids(questions)) = 10
        /\ Ids(questions) \subseteq unasked_before
        /\ UnaskedIds(db) = unasked_before \ Ids(questions)
        /\ Cardinality(UnaskedIds(db)) = Cardinality(unasked_before) - 10
        /\ Cardinality(UnaskedIds(db)) <= Len(db) - 10
        /\ Len(results) = Len(user_answers)
        /\ score(results) = CorrectSubmissions

(* C15 witness: an Untested Questions quiz on an 11-row store just         *)
(* completed, with right and wrong answers, one question left unasked.     *)
C15_Witness ==
    /\ After("submit_answer")
    /\ quiz_type = "Untested Questions Quiz"
    /\ current_stage = "results"
    /\ Len(db) > 10
    /\ Cardinality(unasked_before) = Len(db)
    /\ Cardinality(UnaskedIds(db)) = Len(db) - 10
    /\ score(results) \in 1..9

(* C16: the stage becomes quiz only by a start_quiz that installs a batch  *)
(* of 10 with position 0 and empty answers and results; the stage is never *)
(* quiz with an exhausted batch (position at the batch's length); and      *)
(* after return-to-menu, reset, an ignored submit or a failed start the    *)
(* stage is not quiz.                                                      *)
C16_QuizOnlyByStart ==
    /\ [][ (current_stage # "quiz" /\ current_stage' = "quiz") =>
             /\ pc = "run"
             /\ event'[1] = "start_quiz"
             /\ Len(questions') = 10
             /\ current_question_index' = 0
             /\ user_answers' = <<>>
             /\ results' = <<>> ]_vars
    /\ [](current_stage = "quiz" => current_question_index < Len(questions))
    /\ []( ( \/ After("return_to_menu")
             \/ After("reset_all_questions")
             \/ After("submit_ignored")
             \/ After("start_quiz")
                  /\ "Not enough questions available" \in notices )
           => current_stage # "quiz" )

(* C16 witness: after a batch was exhausted and the flags reset, a new     *)
(* start has just entered quiz with a fresh batch.                         *)
C16_Witness ==
    /\ After("start_quiz")
    /\ current_stage = "quiz"
    /\ current_question_index = 0
    /\ submits >= 10
    /\ AllFlagsFalse(db)
    /\ \E k \in 1..Len(master) : master[k].has_asked = 1

(* C17: a reset happens in the menu stage and leaves the stage menu and    *)
(* the batch, the position, the answers, the results and the quiz-type     *)
(* label as they were; in the store it changes no row's id or content      *)
(* columns and leaves both flags 0 on every row (or, when the store cannot *)
(* be written, reports the error and leaves the rows as they were).        *)
C17_ResetChangesOnlyFlags ==
    [][ (pc = "run" /\ event'[1] = "reset_all_questions") =>
          /\ current_stage = "menu"
          /\ current_stage' = "menu"
          /\ UNCHANGED <<questions, current_question_index, user_answers,
                         results, quiz_type, master>>
          /\ SeededFrom(db', db)
          /\ \/ AllFlagsFalse(db')
             \/ /\ "An error occurred while resetting questions" \in notices'
                /\ db' = db ]_vars

(* C17 witness: a reset in the menu after a finished quiz cleared recorded *)
(* flags while the finished quiz stayed in the session.                    *)
C17_Witness ==
    /\ After("reset_all_questions")
    /\ "All questions have been reset successfully" \in notices
    /\ current_stage = "menu"
    /\ quiz_type \in QuizTypes
    /\ Len(questions) = 10
    /\ current_question_index = 10
    /\ score(results) >= 1
    /\ Len(db) > 0
    /\ AllFlagsFalse(db)

(* C18: in a store seeded from a master whose flags are all 0, in every    *)
(* reachable state and for every row: has_asked = 1 exactly when a         *)
(* submit_answer has written the row since the store was seeded or last    *)
(* reset with success, user_answered_correctly is then the correctness of  *)
(* the most recent of those submissions, and user_answered_correctly = 1   *)
(* implies has_asked = 1.                                                  *)
C18_FlagsFollowSubmissions ==
    AllFlagsFalse(master) =>
        \A k \in 1..Len(db) :
            LET last == last_recorded[db[k].id]
            IN /\ (db[k].has_asked = 1) <=> (last # "none")
               /\ last = "right" => db[k].user_answered_correctly = 1
               /\ last = "wrong" => db[k].user_answered_correctly = 0
               /\ db[k].user_answered_correctly = 1 => db[k].has_asked = 1

(* C18 witness: a second quiz is under way on a store seeded with flags 0; *)
(* its first question, asked in the first quiz too, has been recorded      *)
(* again, and the store holds right, wrong and unasked rows.               *)
C18_Witness ==
    /\ AllFlagsFalse(master)
    /\ After("submit_answer")
    /\ submits > 10
    /\ current_stage = "quiz"
    /\ current_question_index = 1
    /\ \E k \in 1..Len(db) : last_recorded[db[k].id] = "right"
    /\ \E k \in 1..Len(db) : last_recorded[db[k].id] = "wrong"
    /\ \E k \in 1..Len(db) : db[k].has_asked = 0

(* C19: once the store is seeded, no step adds or removes a row or changes *)
(* a row's id, question text, options or answer: the store keeps one row   *)
(* per master row with the master's id and content columns, and a step     *)
(* changes, if anything, has_asked and user_answered_correctly.            *)
C19_RowsAndContentFixed ==
    /\ [](Len(db) > 0 => SeededFrom(db, master))
    /\ [][ Len(db) > 0 => SeededFrom(db', db) ]_vars

(* C19 witness: after a quiz, a return to the menu and a reset, a submit   *)
(* of a second quiz has changed a flag of a store that still has the       *)
(* master's 11 rows.                                                       *)
C19_Witness ==
    /\ After("submit_answer")
    /\ submits > 10
    /\ Len(db) > 10
    /\ SeededFrom(db, master)
    /\ \E k \in 1..Len(db) : master[k].has_asked = 1 /\ db[k].has_asked = 0
    /\ \E k \in 1..Len(db) : db[k].has_asked = 1

(* C20: in every reachable state, stage quiz implies a batch of 10 and a   *)
(* position below 10, stage results implies position 10 with exactly 10    *)
(* results, and the submit that makes the position 10 is the one that sets *)
(* the stage to results.                                                   *)
C20_StageBounds ==
    /\ current_stage = "quiz" =>
          Len(questions) = 10 /\ current_question_index < 10
    /\ current_stage = "results" =>
          current_question_index = 10 /\ Len(results) = 10
    /\ (After("submit_answer") /\ current_question_index = 10) =>
          current_stage = "results"

====
